---- MODULE Spec2Model ----
(***************************************************************************)
(* A model of make.py, the RPM build script of fedora-plugin-devel.        *)
(*                                                                         *)
(* Text is modelled at character level: a Python str is a sequence of      *)
(* one-character strings, so that str.replace, str.split, str.strip,       *)
(* str.rstrip and textwrap.dedent are computed as Python computes them.    *)
(* None and a missing attribute are one-element sequences holding a        *)
(* multi-character string, which no text can equal.                        *)
(***************************************************************************)
EXTENDS Integers, Sequences, FiniteSets, TLC

(***************************************************************************)
(* Bounds of the model.                                                    *)
(***************************************************************************)
\* most lines of a spec template drawn for the text specification
MaxLines == 2
\* most --docker-image values of a run
MaxImages == 2

(***************************************************************************)
(* Python values.                                                          *)
(***************************************************************************)
NoneVal == <<"None">>
\* args.name before line 37 ran: argparse never declares the attribute
Unset == <<"unset">>
\* a character outside ASCII that is not whitespace (e with acute)
NonAscii == "<U+00E9>"
\* a byte that is part of no UTF-8 sequence (0xFF), found in bytes only
InvalidByte == "<0xFF>"
\* the vertical tab and the unit separator
VT == "<U+000B>"
US == "<U+001F>"

\* bool(x) of an optional string: None and '' are false
Truthy(x) == x # NoneVal /\ x # <<>>

_DOCKER_HOME == <<"/","h","o","m","e","/","u","s","e","r">>
_PACKAGER_NAME == <<"N","o","r","i","h","i","r","o"," ","K","a","m","a","e"," ","<","f","e","d","o","r","a","-","o","b","s","-","s","t","u","d","i","o","-","p","l","u","g","i","n","s","@","n","a","g","a","t","e","r",".","n","e","t",">">>

VERSION_TOKEN == <<"@","V","E","R","S","I","O","N","@">>
RELEASE_TOKEN == <<"@","R","E","L","E","A","S","E","@">>
NAME_PREFIX == <<"N","a","m","e",":">>

(***************************************************************************)
(* str methods.                                                            *)
(***************************************************************************)
\* the ASCII characters str.isspace() holds of besides space, \n, \t, \r
\* and \f: the vertical tab and the four separators 0x1C-0x1F
AsciiSeparators ==
    {"<U+000B>", "<U+001C>", "<U+001D>", "<U+001E>", "<U+001F>"}

\* the characters outside ASCII str.isspace() holds of
UnicodeSpaces ==
    {"<U+0085>", "<U+00A0>", "<U+1680>", "<U+2000>", "<U+2001>", "<U+2002>",
     "<U+2003>", "<U+2004>", "<U+2005>", "<U+2006>", "<U+2007>", "<U+2008>",
     "<U+2009>", "<U+200A>", "<U+2028>", "<U+2029>", "<U+202F>", "<U+205F>",
     "<U+3000>"}

\* characters str.split() and str.strip() treat as whitespace
Whitespace ==
    {" ", "\n", "\t", "\r", "\f"} \cup AsciiSeparators \cup UnicodeSpaces

\* s[i:] for 0-based i
Drop(s, n) == SubSeq(s, n + 1, Len(s))

\* s[0:n]
Take(s, n) == SubSeq(s, 1, IF n < Len(s) THEN n ELSE Len(s))

\* s.startswith(p)
StartsWith(s, p) == Len(s) >= Len(p) /\ SubSeq(s, 1, Len(p)) = p

\* the 1-based places where sub occurs in s
Occurrences(s, sub) ==
    {k \in 1..(Len(s) - Len(sub) + 1) : SubSeq(s, k, k + Len(sub) - 1) = sub}

\* the least of a set of numbers that is not empty
Least(S) == CHOOSE x \in S : \A y \in S : x <= y

RECURSIVE Replace(_, _, _)

\* s.replace(old, new) of a text whose leftmost occurrence of old is at k
ReplaceAt(s, old, new, k) ==
    SubSeq(s, 1, k - 1) \o new \o Replace(Drop(s, k - 1 + Len(old)), old, new)

\* s.replace(old, new) of a text in which old occurs at the places found
ReplaceIn(s, old, new, found) ==
    IF found = {} THEN s ELSE ReplaceAt(s, old, new, Least(found))

\* s.replace(old, new) for a non-empty old: the leftmost occurrences that
\* do not overlap, in one pass
Replace(s, old, new) == ReplaceIn(s, old, new, Occurrences(s, old))

RECURSIVE Split(_, _)

\* s.split(sep) of a text whose first sep is at k
SplitAt(s, sep, k) == <<SubSeq(s, 1, k - 1)>> \o Split(Drop(s, k), sep)

\* s.split(sep) for a one-character sep: never empty, '' gives ['']
Split(s, sep) ==
    IF \A i \in 1..Len(s) : s[i] # sep THEN <<s>>
    ELSE SplitAt(s, sep, CHOOSE i \in 1..Len(s) :
                             s[i] = sep /\ \A j \in 1..(i - 1) : s[j] # sep)

\* s.lstrip()
RECURSIVE LStrip(_)
LStrip(s) ==
    IF s # <<>> /\ s[1] \in Whitespace THEN LStrip(Tail(s)) ELSE s

\* s.rstrip()
RECURSIVE RStrip(_)
RStrip(s) ==
    IF s # <<>> /\ s[Len(s)] \in Whitespace
    THEN RStrip(SubSeq(s, 1, Len(s) - 1)) ELSE s

\* s.strip()
Strip(s) == RStrip(LStrip(s))

RECURSIVE SplitWS(_)

\* the fields of a text that starts with a field, given the places of its
\* whitespace
FieldsOf(t, ends) ==
    IF ends = {} THEN <<t>>
    ELSE <<SubSeq(t, 1, Least(ends) - 1)>> \o SplitWS(Drop(t, Least(ends) - 1))

\* the fields of a text without leading whitespace
Fields(t) ==
    IF t = <<>> THEN <<>>
    ELSE FieldsOf(t, {i \in 1..Len(t) : t[i] \in Whitespace})

\* s.split(): the maximal runs of non-whitespace characters
SplitWS(s) == Fields(LStrip(s))

\* sep.join(parts)
RECURSIVE Join(_, _)
Join(parts, sep) ==
    IF parts = <<>> THEN <<>>
    ELSE IF Len(parts) = 1 THEN parts[1]
    ELSE parts[1] \o sep \o Join(Tail(parts), sep)

(***************************************************************************)
(* textwrap.dedent.                                                        *)
(***************************************************************************)
\* the characters dedent counts as indentation
Indentation == {" ", "\t"}

\* a line ^[ \t]+$ matches, or an empty one
BlankLine(line) == \A i \in 1..Len(line) : line[i] \in Indentation

\* the leading run of spaces and tabs of a line
RECURSIVE LeadingWhitespace(_)
LeadingWhitespace(line) ==
    IF line # <<>> /\ line[1] \in Indentation
    THEN <<line[1]>> \o LeadingWhitespace(Tail(line)) ELSE <<>>

\* the longest common prefix of two strings
RECURSIVE CommonPrefix(_, _)
CommonPrefix(a, b) ==
    IF a # <<>> /\ b # <<>> /\ a[1] = b[1]
    THEN <<a[1]>> \o CommonPrefix(Tail(a), Tail(b)) ELSE <<>>

\* the margin loop of dedent over the indents of the non-blank lines
RECURSIVE Margin(_, _)
Margin(indents, margin) ==
    IF indents = <<>> THEN margin
    ELSE Margin(Tail(indents),
                IF margin = NoneVal THEN indents[1]
                ELSE CommonPrefix(margin, indents[1]))

\* the lines after _whitespace_only_re.sub: a blank line is made empty
Blanked(lines) ==
    [i \in 1..Len(lines) |-> IF BlankLine(lines[i]) THEN <<>> ELSE lines[i]]

\* the indents _leading_whitespace_re finds: those of the lines with ink
Indents(inked) == [i \in 1..Len(inked) |-> LeadingWhitespace(inked[i])]

\* re.sub(r'(?m)^' + margin, '', text), when there is a margin
CutMargin(lines, margin) ==
    [i \in 1..Len(lines) |->
        IF Truthy(margin) /\ StartsWith(lines[i], margin)
        THEN Drop(lines[i], Len(margin)) ELSE lines[i]]

\* dedent of the lines after the blank ones are made empty
DedentLines(lines) ==
    CutMargin(lines,
              Margin(Indents(SelectSeq(lines, LAMBDA l : l # <<>>)), NoneVal))

\* textwrap.dedent(text)
Dedent(text) == Join(DedentLines(Blanked(Split(text, "\n"))), <<"\n">>)

(***************************************************************************)
(* Codecs.                                                                 *)
(***************************************************************************)
\* the characters and bytes the ascii codec refuses
NotAscii == {NonAscii, InvalidByte} \cup UnicodeSpaces

\* bytes.decode('ascii') and the ascii text files accept the text
IsAscii(s) == \A i \in 1..Len(s) : s[i] \notin NotAscii

\* bytes.decode('utf-8') accepts the bytes
IsUtf8(s) == \A i \in 1..Len(s) : s[i] # InvalidByte

\* what read() of a text file returns: \r\n and \r are read as \n
ReadText(s) == Replace(Replace(s, <<"\r","\n">>, <<"\n">>), <<"\r">>, <<"\n">>)

(***************************************************************************)
(* os.path.                                                                *)
(***************************************************************************)
\* the working directory of the run
Cwd == <<"/","w","o","r","k">>

\* os.path.isabs(p)
IsAbs(p) == StartsWith(p, <<"/">>)

\* the text is slashes only
AllSlashes(p) == \A i \in 1..Len(p) : p[i] = "/"

\* p.rstrip('/')
RECURSIVE RStripSlash(_)
RStripSlash(p) ==
    IF p # <<>> /\ p[Len(p)] = "/" THEN RStripSlash(SubSeq(p, 1, Len(p) - 1))
    ELSE p

\* p.rfind('/') + 1
AfterLastSlash(p) ==
    LET at == {i \in 1..Len(p) : p[i] = "/"}
    IN  IF at = {} THEN 0 ELSE CHOOSE i \in at : \A j \in at : j <= i

\* os.path.join(a, b)
PathJoin(a, b) ==
    IF IsAbs(b) THEN b
    ELSE IF a = <<>> \/ a[Len(a)] = "/" THEN a \o b
    ELSE a \o <<"/">> \o b

\* os.path.split(p)
PathSplit(p) ==
    LET k == AfterLastSlash(p)
        head == SubSeq(p, 1, k)
    IN  [head |-> IF head # <<>> /\ ~AllSlashes(head) THEN RStripSlash(head)
                  ELSE head,
         tail |-> Drop(p, k)]

\* os.path.basename(p): what follows the last slash
Basename(p) == Drop(p, AfterLastSlash(p))

\* the loop of os.path.normpath over the components of a path
RECURSIVE NormComps(_, _, _)
NormComps(comps, rooted, new) ==
    IF comps = <<>> THEN new
    ELSE IF comps[1] = <<>> \/ comps[1] = <<".">>
    THEN NormComps(Tail(comps), rooted, new)
    ELSE IF \/ comps[1] # <<".",".">>
            \/ (~rooted /\ new = <<>>)
            \/ (new # <<>> /\ new[Len(new)] = <<".",".">>)
    THEN NormComps(Tail(comps), rooted, Append(new, comps[1]))
    ELSE IF new # <<>>
    THEN NormComps(Tail(comps), rooted, SubSeq(new, 1, Len(new) - 1))
    ELSE NormComps(Tail(comps), rooted, new)

\* os.path.normpath(p)
Normpath(p) ==
    LET slashes == IF ~IsAbs(p) THEN 0
                   ELSE IF StartsWith(p, <<"/","/">>)
                           /\ ~StartsWith(p, <<"/","/","/">>) THEN 2
                   ELSE 1
        out == [k \in 1..slashes |-> "/"]
                   \o Join(NormComps(Split(p, "/"), slashes > 0, <<>>), <<"/">>)
    IN  IF out = <<>> THEN <<".">> ELSE out

\* os.path.abspath(p)
Abspath(p) == Normpath(IF IsAbs(p) THEN p ELSE PathJoin(Cwd, p))

\* f'{args.rpmbuild}/SPECS/{args.name}.spec'
SpecPath(rpmbuild, name) ==
    rpmbuild \o <<"/","S","P","E","C","S","/">> \o name \o <<".","s","p","e","c">>

\* f'{args.rpmbuild}/SOURCES'
SourcesDir(rpmbuild) == rpmbuild \o <<"/","S","O","U","R","C","E","S">>

\* f'--prefix={args.name}-{args.version}/'
ArchivePrefix(name, version) == name \o <<"-">> \o version \o <<"/">>

\* f'{args.rpmbuild}/SOURCES/{args.name}-{args.version}.tar.bz2'
TarballPath(rpmbuild, name, version) ==
    rpmbuild \o <<"/","S","O","U","R","C","E","S","/">> \o name \o <<"-">>
        \o version \o <<".","t","a","r",".","b","z","2">>

\* the spec path both commands of run.sh name
ScriptSpecPath(name) ==
    <<"r","p","m","b","u","i","l","d","/","S","P","E","C","S","/">> \o name
        \o <<".","s","p","e","c">>

\* the spec path handed to the host's rpmbuild
NativeSpecPath(rpmbuild, name) == SpecPath(Abspath(rpmbuild), name)

(***************************************************************************)
(* The file system: the set of the directories and the set of the files,   *)
(* [path, content], each under its absolute path. There are no links, and  *)
(* every directory can be searched and written.                            *)
(***************************************************************************)
Root == <<"/">>

\* the path of the directory reached by the names, from the root
PathOf(names) == <<"/">> \o Join(names, <<"/">>)

\* the names of the working directory
CwdNames == Tail(Split(Cwd, "/"))

\* path resolution: the names are followed one by one, each of them from a
\* directory that exists
RECURSIVE Walk(_, _, _)
Walk(dirs, names, cur) ==
    IF names = <<>> THEN [ok |-> TRUE, path |-> PathOf(cur)]
    ELSE IF PathOf(cur) \notin dirs THEN [ok |-> FALSE, path |-> PathOf(cur)]
    ELSE Walk(dirs, Tail(names),
              IF names[1] = <<>> \/ names[1] = <<".">> THEN cur
              ELSE IF names[1] = <<".",".">>
                   THEN SubSeq(cur, 1, Len(cur) - 1)
                   ELSE Append(cur, names[1]))

\* where a path leads: the empty path leads nowhere
Lookup(dirs, path) ==
    IF path = <<>> THEN [ok |-> FALSE, path |-> <<>>]
    ELSE Walk(dirs, Split(path, "/"), IF IsAbs(path) THEN <<>> ELSE CwdNames)

FilePaths(files) == {f.path : f \in files}

\* the looked up path leads to one of the paths
Found(l, paths) == l.ok /\ l.path \in paths

\* os.path.isdir(path)
IsDir(dirs, path) == Found(Lookup(dirs, path), dirs)

\* os.path.exists(path)
Exists(dirs, files, path) ==
    Found(Lookup(dirs, path), dirs \cup FilePaths(files))

\* the looked up path can be opened for writing: its directory exists and
\* it is not a directory itself
CanOpen(l, dirs) == l.ok /\ l.path \notin dirs

\* open(path, 'w') succeeds
Writable(dirs, path) == CanOpen(Lookup(dirs, path), dirs)

\* the content of the file at an absolute path
ContentOf(files, path) == (CHOOSE f \in files : f.path = path).content

\* the files after the file at an absolute path is written
WriteFile(files, path, content) ==
    {f \in files : f.path # path} \cup {[path |-> path, content |-> content]}

\* os.mkdir of a looked up path: error is "exists" (FileExistsError),
\* "missing" (another OSError) or ""
MkdirAt(dirs, files, l) ==
    IF ~l.ok THEN [error |-> "missing", dirs |-> dirs]
    ELSE IF l.path \in dirs \cup FilePaths(files)
    THEN [error |-> "exists", dirs |-> dirs]
    ELSE [error |-> "", dirs |-> dirs \cup {l.path}]

\* os.mkdir(path): a trailing slash is allowed
Mkdir(dirs, files, path) ==
    MkdirAt(dirs, files,
            Lookup(dirs, IF AllSlashes(path) THEN path ELSE RStripSlash(path)))

\* os.makedirs: the except clause after mkdir, with exist_ok=True
ExistOk(name, made) ==
    IF made.error # "" /\ ~IsDir(made.dirs, name) THEN made
    ELSE [error |-> "", dirs |-> made.dirs]

\* os.makedirs: what follows the making of the directories above name;
\* a FileExistsError of theirs is passed over
AfterParents(files, name, tail, up) ==
    IF up.error = "missing" THEN up
    ELSE IF tail = <<".">> THEN [error |-> "", dirs |-> up.dirs]
    ELSE ExistOk(name, Mkdir(up.dirs, files, name))

\* os.makedirs: head, tail = split(name), split again when tail is empty
SplitAgain(s) == IF s.tail = <<>> THEN PathSplit(s.head) ELSE s

RECURSIVE Makedirs(_, _, _)

\* os.makedirs for the head and tail of name
MakedirsOf(dirs, files, name, s) ==
    IF s.head # <<>> /\ s.tail # <<>> /\ ~Exists(dirs, files, s.head)
    THEN AfterParents(files, name, s.tail, Makedirs(dirs, files, s.head))
    ELSE ExistOk(name, Mkdir(dirs, files, name))

\* os.makedirs(name, exist_ok=True)
Makedirs(dirs, files, name) ==
    MakedirsOf(dirs, files, name, SplitAgain(PathSplit(name)))

\* shutil.copyfile for the looked up source and destination: raises when
\* they are one file (SameFileError), when the source is no file and when
\* the destination cannot be opened
CopyFile(dirs, files, s, t) ==
    IF \/ (s.ok /\ t.ok /\ s.path = t.path
              /\ s.path \in dirs \cup FilePaths(files))
       \/ ~Found(s, FilePaths(files))
       \/ ~CanOpen(t, dirs)
    THEN [raised |-> TRUE, files |-> files]
    ELSE [raised |-> FALSE,
          files |-> WriteFile(files, t.path, ContentOf(files, s.path))]

\* shutil.copy2(src, dst): into dst when it is a directory
Copy2(dirs, files, src, dst) ==
    CopyFile(dirs, files, Lookup(dirs, src),
             Lookup(dirs, IF IsDir(dirs, dst) THEN PathJoin(dst, Basename(src))
                          ELSE dst))

(***************************************************************************)
(* _default_version.                                                       *)
(***************************************************************************)
\* out is the stdout of git describe, or None when it exits non-zero
_default_version(out) ==
    IF out = NoneVal THEN [raised |-> TRUE, version |-> NoneVal]
    ELSE IF ~IsAscii(out) THEN [raised |-> TRUE, version |-> NoneVal]
    ELSE [raised |-> FALSE, version |-> Strip(Strip(out))]

(***************************************************************************)
(* The text steps of _prepare_spec_file.                                   *)
(***************************************************************************)
\* the two values handed to the wrong placeholders
SubstituteSwapped(spec, version, release) ==
    Replace(Replace(spec, VERSION_TOKEN, release), RELEASE_TOKEN, version)

\* the two replace calls, the version first
Substitute(spec, version, release) ==
    Replace(Replace(spec, VERSION_TOKEN, version), RELEASE_TOKEN, release)

\* the loop over spec.split('\n'): every matching line assigns args.name;
\* a matching line with fewer than two fields raises IndexError
RECURSIVE ScanName(_, _)

\* line 37 for the fields of a matching line, and the loop after it
AssignName(rest, name, fields) ==
    IF Len(fields) < 2 THEN [raised |-> TRUE, name |-> name]
    ELSE ScanName(rest, fields[2])

ScanName(lines, name) ==
    IF lines = <<>> THEN [raised |-> FALSE, name |-> name]
    ELSE IF Take(lines[1], 5) = NAME_PREFIX
         THEN AssignName(Tail(lines), name, SplitWS(lines[1]))
         ELSE ScanName(Tail(lines), name)

\* a loop that starts from an empty name instead of a missing attribute
ExtractNameDefault(spec, name) == ScanName(Split(spec, "\n"), <<>>)

\* the name loop on the text it is given
ExtractName(spec, name) == ScanName(Split(spec, "\n"), name)

\* a selection that looks at --old-rpm before --message
SelectMsgOldFirst(message, old_rpm, version) ==
    IF Truthy(old_rpm)
    THEN <<"U","p","d","a","t","e"," ","t","o"," ">> \o version
    ELSE IF Truthy(message) THEN message
         ELSE <<"P","a","c","k","a","g","e"," ","u","s","i","n","g"," ","s","c","r","i","p","t",".">>

\* the if / elif / else that picks the changelog message
SelectMsg(message, old_rpm, version) ==
    IF Truthy(message) THEN message
    ELSE IF Truthy(old_rpm)
         THEN <<"U","p","d","a","t","e"," ","t","o"," ">> \o version
         ELSE <<"P","a","c","k","a","g","e"," ","u","s","i","n","g"," ","s","c","r","i","p","t",".">>

\* the twelve spaces before each line of the f-string
StanzaIndent == <<" "," "," "," "," "," "," "," "," "," "," "," ">>

\* the f-string before dedent; its last line is four spaces
RawStanza(date, version, release, msg) ==
    StanzaIndent \o <<"%","c","h","a","n","g","e","l","o","g","\n">>
    \o StanzaIndent \o <<"*"," ">> \o date \o <<" ">> \o _PACKAGER_NAME
        \o <<" ","-"," ">> \o version \o <<"-">> \o release \o <<"\n">>
    \o StanzaIndent \o <<"-"," ">> \o msg \o <<"\n">>
    \o <<" "," "," "," ">>

\* spec += '\n' + textwrap.dedent(...)
AppendStanza(spec, date, version, release, msg) ==
    spec \o <<"\n">> \o Dedent(RawStanza(date, version, release, msg))

\* spec = spec.rstrip() + '\n\n' + res.stdout.decode('utf-8')
AppendOldChangelog(spec, old) == RStrip(spec) \o <<"\n","\n">> \o old

\* a patch loop that skips the patches it cannot copy
RECURSIVE CopyPatchesSkipMissing(_, _, _, _)
CopyPatchesSkipMissing(patches, dirs, files, rpmbuild) ==
    IF patches = <<>> THEN [raised |-> FALSE, files |-> files]
    ELSE CopyPatchesSkipMissing(Tail(patches), dirs,
             Copy2(dirs, files, patches[1], SourcesDir(rpmbuild)).files,
             rpmbuild)

RECURSIVE CopyPatches(_, _, _, _)

\* the patch loop after the copy c of its first patch
CopyRest(patches, dirs, rpmbuild, c) ==
    IF c.raised THEN c ELSE CopyPatches(Tail(patches), dirs, c.files, rpmbuild)

\* the patch loop of lines 62-63: copies until a copy raises
CopyPatches(patches, dirs, files, rpmbuild) ==
    IF patches = <<>> THEN [raised |-> FALSE, files |-> files]
    ELSE CopyRest(patches, dirs, rpmbuild,
                  Copy2(dirs, files, patches[1], SourcesDir(rpmbuild)))

\* what _prepare_spec_file leaves: raised names the statement that raised,
\* "" when none did:
\*   read        lines 29-30, the template cannot be opened or decoded
\*   name_index  line 37, IndexError
\*   rpm_query   line 54, CalledProcessError
\*   rpm_decode  line 56, UnicodeDecodeError
\*   name_unset  line 58, AttributeError of args.name
\*   open        line 58, the spec file cannot be opened
\*   encode      line 59, UnicodeEncodeError, the file is left empty
\*   patch       line 63
Outcome(raised, name, spec, msg, files, rpm_queried) ==
    [raised |-> raised, name |-> name, spec |-> spec, msg |-> msg,
     files |-> files, rpm_queried |-> rpm_queried]

\* lines 62-63: c is what the patch loop leaves
Patched(a, name, spec, msg, c) ==
    Outcome(IF c.raised THEN "patch" ELSE "", name, spec, msg, c.files,
            Truthy(a.old_rpm))

\* lines 58-63 for the spec file at the looked up path l
WriteSpec(a, name, spec, msg, dirs, files, l) ==
    IF ~CanOpen(l, dirs)
    THEN Outcome("open", name, spec, msg, files, Truthy(a.old_rpm))
    ELSE IF ~IsAscii(spec)
    THEN Outcome("encode", name, spec, msg, WriteFile(files, l.path, <<>>),
                 Truthy(a.old_rpm))
    ELSE Patched(a, name, spec, msg,
                 CopyPatches(a.patch, dirs, WriteFile(files, l.path, spec),
                             a.rpmbuild))

\* lines 58-63 for the finished text
Save(a, name, spec, msg, dirs, files) ==
    IF name = Unset
    THEN Outcome("name_unset", name, spec, msg, files, Truthy(a.old_rpm))
    ELSE WriteSpec(a, name, spec, msg, dirs, files,
                   Lookup(dirs, SpecPath(a.rpmbuild, name)))

\* lines 53-63 for the text with its stanza
OldChangelog(a, name, spec, msg, dirs, files, rpmout) ==
    IF ~Truthy(a.old_rpm) THEN Save(a, name, spec, msg, dirs, files)
    ELSE IF rpmout = NoneVal
    THEN Outcome("rpm_query", name, spec, msg, files, TRUE)
    ELSE IF ~IsUtf8(rpmout)
    THEN Outcome("rpm_decode", name, spec, msg, files, TRUE)
    ELSE Save(a, name, AppendOldChangelog(spec, rpmout), msg, dirs, files)

\* lines 39-63 for the name and the message
Entry(a, name, spec, msg, date, dirs, files, rpmout) ==
    OldChangelog(a, name, AppendStanza(spec, date, a.version, a.release, msg),
                 msg, dirs, files, rpmout)

\* lines 35-63 for what the name loop leaves
Scanned(a, scan, spec, date, dirs, files, rpmout) ==
    IF scan.raised
    THEN Outcome("name_index", scan.name, spec, NoneVal, files, FALSE)
    ELSE Entry(a, scan.name, spec,
               SelectMsg(a.message, a.old_rpm, a.version), date, dirs, files,
               rpmout)

\* lines 32-63 for the text read
WithText(a, spec, date, dirs, files, rpmout) ==
    Scanned(a, ExtractName(spec, a.name), spec, date, dirs, files, rpmout)

\* _prepare_spec_file as a function of the configuration a, the bytes of
\* the file a.spec (None: it cannot be opened), the date, the directories
\* and files present and the stdout of rpm -q (None: non-zero exit)
PrepareSpecFile(a, template, date, dirs, files, rpmout) ==
    IF a.spec = NoneVal \/ template = NoneVal \/ ~IsAscii(template)
    THEN Outcome("read", a.name, <<>>, NoneVal, files, FALSE)
    ELSE WithText(a, Substitute(ReadText(template), a.version, a.release),
                      date, dirs, files, rpmout)

(***************************************************************************)
(* State.                                                                  *)
(***************************************************************************)
VARIABLES
    argv,         \* the Namespace parse_args returned (line 118), kept as given
    args,         \* the Namespace the run works on, with its name attribute
    env,          \* what the run finds: the bytes of the template file, the
                  \* date, what rpm -q may print, the directories and the
                  \* files of the start
    pc,           \* the statement of main the run is at
    i,            \* index of the image the for loop of main is at
    spec,         \* the local spec of _prepare_spec_file when it last ran
    msg,          \* the local msg of _prepare_spec_file when it last ran
    fs_dirs,      \* the directories that exist, by absolute path
    fs_files,     \* the files that exist: [path, content]
    tmpdirs,      \* scratch directories that exist
    tmp_created,  \* scratch directories created so far
    steps,        \* the steps of main started so far, in order
    raised,       \* the exceptions raised so far: [step, error]
    tag_queries,  \* the stdout of every run of git describe
    rpm_queries,  \* the stdout of every run of rpm -q --changelog
    archives,     \* the --prefix of every git archive that succeeded
    builds,       \* the docker commands prepared, in order
    natives,      \* the host rpmbuild commands run
    exit_status   \* the exit status of the process, -1 while it runs

vars == <<argv, args, env, pc, i, spec, msg, fs_dirs, fs_files, tmpdirs,
          tmp_created, steps, raised, tag_queries, rpm_queries, archives,
          builds, natives, exit_status>>

(***************************************************************************)
(* Inputs.                                                                 *)
(***************************************************************************)
\* all sequences over S of length at most n
SeqsUpTo(S, n) == UNION {[1..k -> S] : k \in 0..n}

NL == <<"\n">>

Today == <<"F","r","i"," ","O","c","t"," ","3","0"," ","2","0","2","6">>
SpecArg == <<"p","k","g",".","s","p","e","c",".","i","n">>
RpmbuildArg == <<"r","b">>
OldRpmArg == <<"o","l","d",".","r","p","m">>
Version10 == <<"1",".","0">>

LineNameFoo == <<"N","a","m","e",":"," ","f","o","o">>
LineNameBar == <<"N","a","m","e",":",VT," ","b","a","r",US,"b","a","z">>
LineNameBare == <<"N","a","m","e",":">>
LineNameVersioned == <<"N","a","m","e",":"," ","p","@","V","E","R","S","I","O","N","@">>
LineNameIndented == <<" ","N","a","m","e",":"," ","x","\r">>
LineBoth == <<"V","e","r","s","i","o","n",":"," ","@","V","E","R","S","I","O","N","@","-","@","R","E","L","E","A","S","E","@">>
LineOverlap == <<"@","V","E","R","S","I","O","N","@","R","E","L","E","A","S","E","@">>
LineVersionFirst == <<"@","V","E","R","S","I","O","N","@"," ","f","o","o">>

\* the bytes of the spec templates of the runs; None is a template that
\* cannot be opened
RunTemplates ==
    { LineNameFoo \o NL \o LineBoth \o NL,
      LineNameFoo \o <<"\r">> \o NL \o LineNameBar \o NL,
      LineVersionFirst \o NL,
      NoneVal }

\* --version: absent, empty, a version, a version that reads as a Name: tag
RunVersions == {NoneVal, <<>>, Version10, NAME_PREFIX}

\* stdout of git describe; None is a non-zero exit
TagOutputs ==
    {NoneVal, <<VT," ","v","2","\n">>, <<"v",NonAscii,"\n">>,
     <<"v","/","2","\n">>}

\* stdout of rpm -q --changelog; None is a non-zero exit
RunRpmOutputs ==
    {NoneVal, <<"*"," ","o","l","d","\n","-"," ","x","\n">>,
     <<"*"," ",NonAscii,"\n">>, <<"*"," ",InvalidByte,"\n">>}
TextRpmOutputs ==
    RunRpmOutputs \cup {<<"-"," ","@","V","E","R","S","I","O","N","@","\n">>}

\* --patch values: a file, and a path into SOURCES that is a file of an
\* earlier run, its own destination, or leads nowhere
PatchA == <<"d","/","a",".","p">>
PatchX == RpmbuildArg \o <<"/","S","O","U","R","C","E","S","/","x",".","p">>
PatchPaths == {PatchA, PatchX}
Images == {"fedora:40", "fedora:41"}

\* the sequences over S in which nothing repeats
DistinctSeqs(S) ==
    {q \in SeqsUpTo(S, Cardinality(S)) :
        \A j, k \in 1..Len(q) : q[j] = q[k] => j = k}

\* the directories and files a run can find: nothing but the patch file
\* d/a.p; the build root of an earlier run, with a directory where the spec
\* file foo.spec is to be written; a file where SOURCES is to be made
BuildRoot == Abspath(RpmbuildArg)
FsClean ==
    [dirs |-> {Root, Cwd, Abspath(<<"d">>)},
     files |-> {[path |-> Abspath(PatchA), content |-> <<"patch a">>]}]
FsEarlier ==
    [dirs |-> FsClean.dirs \cup
                 {BuildRoot, BuildRoot \o <<"/","S","P","E","C","S">>,
                  BuildRoot \o <<"/","S","O","U","R","C","E","S">>,
                  Abspath(SpecPath(RpmbuildArg, <<"f","o","o">>))},
     files |-> FsClean.files \cup
                 {[path |-> Abspath(PatchX), content |-> <<"patch x">>]}]
FsBlocked ==
    [dirs |-> FsClean.dirs \cup {BuildRoot},
     files |-> FsClean.files \cup
                 {[path |-> BuildRoot \o <<"/","S","O","U","R","C","E","S">>,
                   content |-> <<>>]}]
RunFileSystems == {FsClean, FsEarlier, FsBlocked}

\* the build root _prepare_rpmbuild leaves when nothing was there
FsPrepared ==
    [dirs |-> FsClean.dirs \cup
                 {BuildRoot, BuildRoot \o <<"/","S","P","E","C","S">>,
                  BuildRoot \o <<"/","S","O","U","R","C","E","S">>},
     files |-> FsClean.files]

\* the lines of the templates of the text specification
TextLines ==
    { LineNameFoo, LineNameBar, LineNameBare, LineNameVersioned,
      LineNameIndented, LineBoth, LineOverlap }

TextTemplates == {Join(ls, NL) : ls \in SeqsUpTo(TextLines, MaxLines)}
TextVersions == {Version10, RELEASE_TOKEN}
TextReleases == {<<"2">>, VERSION_TOKEN}
TextMessages ==
    {NoneVal, <<>>, <<"F","i","x"," ","b","u","g",VT>>, <<"a","\n"," ","\n","b">>}
TextOldRpms == {NoneVal, <<>>, OldRpmArg}

(***************************************************************************)
(* Initial states: parse_args has returned.                                *)
(***************************************************************************)
Start(a, template, fs, rpm) ==
    /\ argv = a
    /\ args = [a EXCEPT !.name = Unset]
    /\ env = [template |-> template, today |-> Today, rpm |-> rpm,
              dirs |-> fs.dirs, files |-> fs.files]
    /\ i = 1
    /\ spec = <<>>
    /\ msg = NoneVal
    /\ fs_dirs = fs.dirs
    /\ fs_files = fs.files
    /\ tmpdirs = {}
    /\ tmp_created = 0
    /\ raised = <<>>
    /\ tag_queries = <<>>
    /\ rpm_queries = <<>>
    /\ archives = <<>>
    /\ builds = <<>>
    /\ natives = <<>>
    /\ exit_status = -1

Init ==
    /\ \E template \in RunTemplates, version \in RunVersions,
          old_rpm \in {NoneVal, OldRpmArg},
          patch \in DistinctSeqs(PatchPaths),
          docker_image \in SeqsUpTo(Images, MaxImages),
          native \in BOOLEAN, fs \in RunFileSystems :
          Start([spec |-> SpecArg, patch |-> patch, docker_image |-> docker_image,
                 native |-> native, rpmbuild |-> RpmbuildArg, version |-> version,
                 release |-> <<"1">>, message |-> NoneVal, old_rpm |-> old_rpm,
                 name |-> Unset],
                template, fs, RunRpmOutputs)
    /\ pc = "get_args"
    /\ steps = <<>>

\* the text specification starts where _prepare_rpmbuild calls
\* _prepare_spec_file: the version is resolved, the directories are made
InitText ==
    /\ \E template \in TextTemplates, version \in TextVersions,
          release \in TextReleases, message \in TextMessages,
          old_rpm \in TextOldRpms :
          Start([spec |-> SpecArg, patch |-> <<>>, docker_image |-> <<>>,
                 native |-> FALSE, rpmbuild |-> RpmbuildArg, version |-> version,
                 release |-> release, message |-> message, old_rpm |-> old_rpm,
                 name |-> Unset],
                template, FsPrepared, TextRpmOutputs)
    /\ pc = "prepare_spec_file"
    /\ steps = <<"get_args", "prepare_rpmbuild">>

(***************************************************************************)
(* Actions.                                                                *)
(***************************************************************************)
\* an uncaught exception ends the process with status 1
Raise ==
    /\ pc' = "failed"
    /\ exit_status' = 1

\* the exception record of a step
Exc(step, error) == [step |-> step, error |-> error]

\* a test for None alone: an empty --version would stand
NeedsTagNoneOnly(version) == version = NoneVal

\* line 120: if not args.version
NeedsTag(version) == ~Truthy(version)

\* _get_args after parse_args: lines 120-123
_get_args ==
    /\ pc = "get_args"
    /\ steps' = Append(steps, "get_args")
    /\ IF NeedsTag(args.version)
       THEN \E out \in TagOutputs :
                LET r == _default_version(out)
                IN  /\ tag_queries' = Append(tag_queries, out)
                    /\ IF r.raised
                       THEN /\ raised' = Append(raised, Exc("get_args", "git_describe"))
                            /\ Raise
                            /\ UNCHANGED args
                       ELSE /\ args' = [args EXCEPT !.version = r.version]
                            /\ pc' = "prepare_rpmbuild"
                            /\ UNCHANGED <<exit_status, raised>>
       ELSE /\ pc' = "prepare_rpmbuild"
            /\ UNCHANGED <<args, tag_queries, exit_status, raised>>
    /\ UNCHANGED <<argv, env, i, spec, msg, fs_dirs, fs_files, tmpdirs,
                   tmp_created, rpm_queries, archives, builds, natives>>

\* the arguments of the three makedirs calls of lines 21-23, in order
BuildRootDirs(rpmbuild) ==
    <<rpmbuild, rpmbuild \o <<"/","S","P","E","C","S">>,
      rpmbuild \o <<"/","S","O","U","R","C","E","S">>>>

\* the makedirs calls from the k-th on: they stop at the first that raises
RECURSIVE MakeBuildRoot(_, _, _, _)
MakeBuildRoot(dirs, files, names, k) ==
    IF k > Len(names) THEN [raised |-> FALSE, dirs |-> dirs]
    ELSE LET m == Makedirs(dirs, files, names[k])
         IN  IF m.error # "" THEN [raised |-> TRUE, dirs |-> m.dirs]
             ELSE MakeBuildRoot(m.dirs, files, names, k + 1)

\* _prepare_rpmbuild, lines 21-23; without --rpmbuild line 21 raises
_prepare_rpmbuild ==
    /\ pc = "prepare_rpmbuild"
    /\ steps' = Append(steps, "prepare_rpmbuild")
    /\ LET r == IF args.rpmbuild = NoneVal
                THEN [raised |-> TRUE, dirs |-> fs_dirs]
                ELSE MakeBuildRoot(fs_dirs, fs_files,
                                   BuildRootDirs(args.rpmbuild), 1)
       IN  /\ fs_dirs' = r.dirs
           /\ IF r.raised
              THEN /\ raised' = Append(raised, Exc("prepare_rpmbuild", "makedirs"))
                   /\ Raise
              ELSE pc' = "prepare_spec_file" /\ UNCHANGED <<exit_status, raised>>
    /\ UNCHANGED <<argv, args, env, i, spec, msg, fs_files, tmpdirs, tmp_created,
                   tag_queries, rpm_queries, archives, builds, natives>>

\* what rpm -q can print for the run: it runs with --old-rpm only
RpmOutputsOf(a, rpm) == IF Truthy(a.old_rpm) THEN rpm ELSE {NoneVal}

\* _prepare_spec_file, lines 28-63
_prepare_spec_file ==
    /\ pc = "prepare_spec_file"
    /\ steps' = Append(steps, "prepare_spec_file")
    /\ \E rpmout \in RpmOutputsOf(args, env.rpm) :
          LET r == PrepareSpecFile(args, env.template, env.today, fs_dirs,
                                   fs_files, rpmout)
          IN  /\ args' = [args EXCEPT !.name = r.name]
              /\ spec' = r.spec
              /\ msg' = r.msg
              /\ fs_files' = r.files
              /\ rpm_queries' = IF r.rpm_queried THEN Append(rpm_queries, rpmout)
                                ELSE rpm_queries
              /\ IF r.raised # ""
                 THEN /\ raised' = Append(raised, Exc("prepare_spec_file", r.raised))
                      /\ Raise
                 ELSE pc' = "prepare_sources" /\ UNCHANGED <<exit_status, raised>>
    /\ UNCHANGED <<argv, env, i, fs_dirs, tmpdirs, tmp_created, tag_queries,
                   archives, builds, natives>>

\* _prepare_sources, lines 65-73: git archive exits zero or not, and the
\* tarball is opened for writing
_prepare_sources ==
    /\ pc = "prepare_sources"
    /\ steps' = Append(steps, "prepare_sources")
    /\ \E ok \in BOOLEAN :
          LET tarball == TarballPath(args.rpmbuild, args.name, args.version)
          IN  IF ~ok
              THEN /\ raised' = Append(raised, Exc("prepare_sources", "git_archive"))
                   /\ Raise
                   /\ UNCHANGED <<archives, fs_files>>
              ELSE /\ archives' = Append(archives,
                                         ArchivePrefix(args.name, args.version))
                   /\ IF Writable(fs_dirs, tarball)
                      THEN /\ fs_files' = WriteFile(fs_files,
                                  Lookup(fs_dirs, tarball).path,
                                  <<"bz2 of tar with prefix">>
                                      \o ArchivePrefix(args.name, args.version))
                           /\ pc' = "images"
                           /\ UNCHANGED <<exit_status, raised>>
                      ELSE /\ raised' = Append(raised,
                                               Exc("prepare_sources", "tarball"))
                           /\ Raise
                           /\ UNCHANGED fs_files
    /\ UNCHANGED <<argv, args, env, i, spec, msg, fs_dirs, tmpdirs, tmp_created,
                   tag_queries, rpm_queries, builds, natives>>

\* a loop that walks the images from the last to the first
ImageAtReversed(images, k) == images[Len(images) + 1 - k]

\* the image the for loop of main hands to its k-th build
ImageAt(images, k) == images[k]

\* a run.sh that names the spec after the template file, not after Name:
DockerCmdTemplateName(image, tmpdir, a) ==
    [image |-> image, tmpdir |-> tmpdir,
     script_spec |-> ScriptSpecPath(Split(Basename(a.spec), ".")[1]),
     mount_from |-> Abspath(a.rpmbuild),
     mount_to |-> _DOCKER_HOME \o <<"/","r","p","m","b","u","i","l","d">>]

\* the docker command of lines 87-94 for the image and the scratch directory
DockerCmd(image, tmpdir, a) ==
    [image |-> image, tmpdir |-> tmpdir,
     script_spec |-> ScriptSpecPath(a.name),
     mount_from |-> Abspath(a.rpmbuild),
     mount_to |-> _DOCKER_HOME \o <<"/","r","p","m","b","u","i","l","d">>]

\* _build_on_docker, lines 76-94: the scratch directory and run.sh
_build_on_docker_enter ==
    /\ pc = "images"
    /\ i <= Len(args.docker_image)
    /\ steps' = Append(steps, "build_on_docker")
    /\ tmp_created' = tmp_created + 1
    /\ tmpdirs' = tmpdirs \cup {tmp_created + 1}
    /\ builds' = Append(builds,
           DockerCmd(ImageAt(args.docker_image, i), tmp_created + 1, args))
    /\ pc' = "docker_run"
    /\ UNCHANGED <<argv, args, env, i, spec, msg, fs_dirs, fs_files, raised,
                   tag_queries, rpm_queries, archives, natives, exit_status>>

\* a scratch directory removed only when the build returns
AfterWithLeak(dirs, tmpdir, ok) == IF ok THEN dirs \ {tmpdir} ELSE dirs

\* the scratch directories left when the with block of line 76 is left,
\* by the return (ok) or by the exception of line 95
AfterWith(dirs, tmpdir, ok) == dirs \ {tmpdir}

\* line 95 without check=True: a failed container run goes unnoticed
_build_on_docker_run_unchecked ==
    /\ pc = "docker_run"
    /\ \E ok \in BOOLEAN :
          /\ tmpdirs' = tmpdirs \ {builds[Len(builds)].tmpdir}
          /\ i' = i + 1
          /\ pc' = "images"
          /\ raised' = IF ok THEN raised
                       ELSE Append(raised, Exc("build_on_docker", "docker_run"))
          /\ UNCHANGED exit_status
    /\ UNCHANGED <<argv, args, env, spec, msg, fs_dirs, fs_files, tmp_created,
                   steps, tag_queries, rpm_queries, archives, builds, natives>>

\* _build_on_docker, line 95 and the end of the with block
_build_on_docker_run ==
    /\ pc = "docker_run"
    /\ \E ok \in BOOLEAN :
          /\ tmpdirs' = AfterWith(tmpdirs, builds[Len(builds)].tmpdir, ok)
          /\ IF ok
             THEN /\ i' = i + 1
                  /\ pc' = "images"
                  /\ UNCHANGED <<exit_status, raised>>
             ELSE /\ raised' = Append(raised, Exc("build_on_docker", "docker_run"))
                  /\ Raise
                  /\ UNCHANGED i
    /\ UNCHANGED <<argv, args, env, spec, msg, fs_dirs, fs_files, tmp_created,
                   steps, tag_queries, rpm_queries, archives, builds, natives>>

\* _build_on_native, lines 97-104, called by line 134
_build_on_native ==
    /\ pc = "images"
    /\ i > Len(args.docker_image)
    /\ args.native
    /\ steps' = Append(steps, "build_on_native")
    /\ natives' = Append(natives,
           [topdir |-> Abspath(args.rpmbuild),
            spec_path |-> NativeSpecPath(args.rpmbuild, args.name)])
    /\ \E ok \in BOOLEAN :
          IF ok
          THEN pc' = "done" /\ exit_status' = 0 /\ UNCHANGED raised
          ELSE /\ raised' = Append(raised, Exc("build_on_native", "rpmbuild"))
               /\ Raise
    /\ UNCHANGED <<argv, args, env, i, spec, msg, fs_dirs, fs_files, tmpdirs,
                   tmp_created, tag_queries, rpm_queries, archives, builds>>

\* main returns without a native build
main_return ==
    /\ pc = "images"
    /\ i > Len(args.docker_image)
    /\ ~args.native
    /\ pc' = "done"
    /\ exit_status' = 0
    /\ UNCHANGED <<argv, args, env, i, spec, msg, fs_dirs, fs_files, tmpdirs,
                   tmp_created, steps, raised, tag_queries, rpm_queries, archives,
                   builds, natives>>

Next ==
    \/ _get_args
    \/ _prepare_rpmbuild
    \/ _prepare_spec_file
    \/ _prepare_sources
    \/ _build_on_docker_enter
    \/ _build_on_docker_run
    \/ _build_on_native
    \/ main_return

Spec == Init /\ [][Next]_vars

NextText == _prepare_spec_file

SpecText == InitText /\ [][NextText]_vars

(***************************************************************************)
(* Properties of a run of main.                                            *)
(***************************************************************************)
IsPrefix(a, b) == Len(a) <= Len(b) /\ SubSeq(b, 1, Len(a)) = a

\* the steps of a run that nothing stops, in order
ExpectedSteps(a) ==
    <<"get_args", "prepare_rpmbuild", "prepare_spec_file", "prepare_sources">>
    \o [k \in 1..Len(a.docker_image) |-> "build_on_docker"]
    \o (IF a.native THEN <<"build_on_native">> ELSE <<>>)

\* the images of the container builds started so far, in order
BuiltImages == [k \in 1..Len(builds) |-> builds[k].image]

\* the file SOURCES holds of the k-th patch once it is copied
PatchCopy(k) ==
    [path |-> Abspath(SourcesDir(args.rpmbuild) \o <<"/">>
                          \o Basename(args.patch[k])),
     content |-> ContentOf(env.files, Abspath(args.patch[k]))]

\* the build root holds the spec file, every listed patch and the tarball
Prepared ==
    /\ Len(archives) = 1
    /\ \E f \in fs_files : f.path = Abspath(SpecPath(args.rpmbuild, args.name))
    /\ \E f \in fs_files :
          f.path = Abspath(TarballPath(args.rpmbuild, args.name, args.version))
    /\ \A k \in 1..Len(args.patch) : PatchCopy(k) \in fs_files

\* C1: the container builds run once per --docker-image value, one at a
\* time and in the order given, only after the build root is prepared;
\* all of them have finished before the native build starts, the native
\* build runs only with --native and is the last step, and a run that
\* reaches its end has built every image.
C1_BuildOrder ==
    /\ IsPrefix(steps, ExpectedSteps(argv))
    /\ IsPrefix(BuiltImages, argv.docker_image)
    /\ builds # <<>> => Prepared
    /\ pc = "docker_run" => Len(builds) = i /\ Cardinality(tmpdirs) = 1
    /\ pc = "images" => Len(builds) = i - 1 /\ tmpdirs = {}
    /\ natives # <<>> =>
          /\ argv.native
          /\ Len(natives) = 1
          /\ BuiltImages = argv.docker_image
          /\ tmpdirs = {}
          /\ pc \in {"done", "failed"}
          /\ steps[Len(steps)] = "build_on_native"
    /\ pc = "done" =>
          /\ BuiltImages = argv.docker_image
          /\ steps = ExpectedSteps(argv)
          /\ argv.native <=> Len(natives) = 1

\* a run that built two different images and then natively, to its end
C1_Witness ==
    /\ pc = "done"
    /\ Len(builds) = 2
    /\ builds[1].image # builds[2].image
    /\ Len(natives) = 1

\* the number of steps started when the given step is the one that raised
StepsUpTo(step) ==
    CASE step = "get_args" -> 1
      [] step = "prepare_rpmbuild" -> 2
      [] step = "prepare_spec_file" -> 3
      [] step = "prepare_sources" -> 4
      [] step = "build_on_docker" -> 4 + i
      [] step = "build_on_native" -> 5 + Len(argv.docker_image)

\* C2: fail-fast: once a step has raised, the process has ended with a
\* failure status, the step that raised is the last one started, nothing
\* was retried, and a failed build of the i-th image leaves the later
\* images and the native build unstarted.
C2_FailFast ==
    /\ raised # <<>> =>
          /\ pc = "failed"
          /\ exit_status = 1
          /\ Len(raised) = 1
          /\ steps[Len(steps)] = raised[1].step
          /\ Len(steps) = StepsUpTo(raised[1].step)
          /\ IsPrefix(steps, ExpectedSteps(argv))
          /\ raised[1].step = "build_on_docker" =>
                Len(builds) = i /\ natives = <<>>
          /\ raised[1].step \notin {"build_on_docker", "build_on_native"} =>
                builds = <<>> /\ natives = <<>>
    /\ pc = "failed" <=> raised # <<>>
    /\ exit_status = 0 <=> pc = "done"
    /\ exit_status = 1 <=> pc = "failed"
    /\ Len(tag_queries) <= 1 /\ Len(rpm_queries) <= 1
    /\ Len(archives) <= 1 /\ Len(natives) <= 1

\* the build of the first of two images failed, with --native set
C2_Witness ==
    /\ raised = <<Exc("build_on_docker", "docker_run")>>
    /\ Len(argv.docker_image) = 2
    /\ Len(builds) = 1
    /\ argv.native

\* C7: a scratch directory exists only while its container build runs: it
\* is gone when the build step is left, by its return or by its failure,
\* so at most one exists at a time and none when the process has ended.
C7_ScratchRemoved ==
    /\ Cardinality(tmpdirs) <= 1
    /\ tmpdirs # {} => pc = "docker_run" /\ tmpdirs = {builds[Len(builds)].tmpdir}
    /\ pc \in {"done", "failed"} => tmpdirs = {}
    /\ tmp_created = Len(builds)

\* the second container build failed and no scratch directory is left
C7_Witness ==
    /\ pc = "failed"
    /\ raised = <<Exc("build_on_docker", "docker_run")>>
    /\ tmp_created = 2
    /\ tmpdirs = {}

(***************************************************************************)
(* Properties of the text _prepare_spec_file writes.                       *)
(***************************************************************************)
\* _prepare_spec_file has been called and has returned or raised
SpecPrepared == Len(steps) >= 3 /\ pc # "prepare_spec_file"

\* _prepare_spec_file wrote the finished text to the spec file
SpecWritten ==
    /\ SpecPrepared
    /\ raised # <<>> =>
          raised[1].error \in
              {"patch", "git_archive", "tarball", "docker_run", "rpmbuild"}

\* the content of the spec file of the run
WrittenSpec ==
    ContentOf(fs_files, Abspath(SpecPath(args.rpmbuild, args.name)))

\* the text of the template as _prepare_spec_file reads it
TemplateText == ReadText(env.template)

\* the template after the two replace calls
Substituted == Substitute(TemplateText, args.version, args.release)

\* the lines of a text that start with Name:
NameLines(text) ==
    SelectSeq(Split(text, "\n"), LAMBDA l : StartsWith(l, NAME_PREFIX))

\* the line has a second whitespace-delimited field
HasSecondField(line) == Len(SplitWS(line)) >= 2

\* C3: the name is the second whitespace-delimited field of the first
\* line of the template, before the substitution, that starts with Name:.
C3_Original ==
    (/\ SpecPrepared
     /\ raised = <<>>
     /\ NameLines(TemplateText) # <<>>
     /\ HasSecondField(NameLines(TemplateText)[1]))
    => args.name = SplitWS(NameLines(TemplateText)[1])[2]

\* two Name: lines that the substitution leaves as they are, with different
\* second fields: the spec file is written under the name of the second line
C3_Witness ==
    /\ pc = "prepare_sources"
    /\ NameLines(TemplateText) = NameLines(Substituted)
    /\ Len(NameLines(TemplateText)) = 2
    /\ HasSecondField(NameLines(TemplateText)[1])
    /\ SplitWS(NameLines(TemplateText)[1])[2] # SplitWS(NameLines(TemplateText)[2])[2]
    /\ args.name = SplitWS(NameLines(TemplateText)[2])[2]
    /\ \E f \in fs_files :
          f.path = Abspath(SpecPath(args.rpmbuild,
                                    SplitWS(NameLines(TemplateText)[2])[2]))

\* the text has no @
AtFree(s) == \A k \in 1..Len(s) : s[k] # "@"

\* the places where a placeholder starts
TokenStarts(t) ==
    Occurrences(t, VERSION_TOKEN) \cup Occurrences(t, RELEASE_TOKEN)

\* every @ of the text is the first or the last character of exactly one
\* placeholder: no placeholders overlap and no @ stands alone
WellFormed(t) ==
    \A j \in 1..Len(t) :
        t[j] = "@" =>
            Cardinality({k \in TokenStarts(t) :
                            j = k \/ j = k + Len(VERSION_TOKEN) - 1}) = 1

\* the text with every placeholder, found left to right in the text itself,
\* replaced by its value
RECURSIVE Simultaneous(_, _, _)
Simultaneous(t, version, release) ==
    LET starts == TokenStarts(t)
    IN  IF starts = {} THEN t
        ELSE LET k == CHOOSE x \in starts : \A y \in starts : x <= y
             IN  SubSeq(t, 1, k - 1)
                 \o (IF StartsWith(Drop(t, k - 1), VERSION_TOKEN)
                     THEN version ELSE release)
                 \o Simultaneous(Drop(t, k - 1 + Len(VERSION_TOKEN)),
                                 version, release)

\* the template holds both placeholders
HasBothTokens(t) ==
    Occurrences(t, VERSION_TOKEN) # {} /\ Occurrences(t, RELEASE_TOKEN) # {}

\* the written spec holds no placeholder and starts with the template in
\* which the values stand where the placeholders stood
PlaceholdersGone ==
    /\ Occurrences(WrittenSpec, VERSION_TOKEN) = {}
    /\ Occurrences(WrittenSpec, RELEASE_TOKEN) = {}
    /\ StartsWith(WrittenSpec,
                  Simultaneous(TemplateText, args.version, args.release))

\* C4 as stated: for any template with both placeholders and any version
\* and release, the written spec holds neither placeholder and the values
\* stand where the placeholders stood.
C4_Original ==
    (SpecWritten /\ HasBothTokens(TemplateText)) => PlaceholdersGone

\* C4, amended: the same, for a template in which every @ belongs to
\* exactly one placeholder and for a version, a release, a message and a
\* prior changelog without @.
C4_PlaceholdersReplaced ==
    (/\ SpecWritten
     /\ HasBothTokens(TemplateText)
     /\ WellFormed(TemplateText)
     /\ AtFree(args.version) /\ AtFree(args.release)
     /\ AtFree(args.message)
     /\ \A k \in 1..Len(rpm_queries) : AtFree(rpm_queries[k]))
    => PlaceholdersGone

\* a well-formed template with both placeholders written with a message
\* and a prior changelog
C4_Witness ==
    /\ SpecWritten
    /\ HasBothTokens(TemplateText)
    /\ WellFormed(TemplateText)
    /\ AtFree(args.version) /\ AtFree(args.release)
    /\ Truthy(args.message) /\ AtFree(args.message)
    /\ Len(rpm_queries) = 1 /\ AtFree(rpm_queries[1])
    /\ PlaceholdersGone

UpdateTo == <<"U","p","d","a","t","e"," ","t","o"," ">>
PackageUsingScript == <<"P","a","c","k","a","g","e"," ","u","s","i","n","g"," ","s","c","r","i","p","t",".">>

\* the text has one line
SingleLine(s) == \A k \in 1..Len(s) : s[k] # "\n"

\* the stanza of single-line values
PlainStanza(date, version, release, entry) ==
    <<"%","c","h","a","n","g","e","l","o","g","\n","*"," ">> \o date \o <<" ">>
    \o _PACKAGER_NAME \o <<" ","-"," ">> \o version \o <<"-">> \o release
    \o <<"\n","-"," ">> \o entry \o <<"\n">>

\* the stanza stands in the spec text with the selected entry after "- "
StanzaWritten ==
    (SingleLine(args.version) /\ SingleLine(args.release) /\ SingleLine(msg)) =>
        LET text == Substituted \o <<"\n">>
                        \o PlainStanza(env.today, args.version, args.release, msg)
        IN  spec = IF /\ rpm_queries # <<>>
                      /\ rpm_queries[1] # NoneVal
                      /\ IsUtf8(rpm_queries[1])
                   THEN RStrip(text) \o <<"\n","\n">> \o rpm_queries[1]
                   ELSE text

\* C5 as stated: a supplied --message is the entry text; otherwise a
\* supplied --old-rpm gives Update to <version>; otherwise the fallback.
C5_Original ==
    (SpecPrepared /\ msg # NoneVal) =>
        msg = IF argv.message # NoneVal THEN argv.message
              ELSE IF argv.old_rpm # NoneVal THEN UpdateTo \o args.version
              ELSE PackageUsingScript

\* C5, amended: a non-empty --message is the entry text whatever --old-rpm
\* is; otherwise a non-empty --old-rpm gives Update to <version>;
\* otherwise the entry is Package using script. The stanza of single-line
\* values carries the entry after "- ".
C5_EntrySelected ==
    (SpecPrepared /\ msg # NoneVal) =>
        /\ msg = IF argv.message \notin {NoneVal, <<>>} THEN argv.message
                 ELSE IF argv.old_rpm \notin {NoneVal, <<>>}
                      THEN UpdateTo \o args.version
                      ELSE PackageUsingScript
        /\ StanzaWritten

\* a message and a prior package both given, the spec file written
C5_Witness ==
    /\ pc = "prepare_sources"
    /\ Truthy(argv.message) /\ SingleLine(argv.message)
    /\ Truthy(argv.old_rpm)
    /\ msg = argv.message
    /\ WrittenSpec = spec

(***************************************************************************)
(* Properties of the version, the name and the build root.                 *)
(***************************************************************************)
\* git describe exited non-zero or printed what ascii cannot decode
TagQueryFailed == raised = <<Exc("get_args", "git_describe")>>

\* the supplied version is the one every later step uses
SuppliedVersionUsed ==
    /\ args.version = argv.version
    /\ (SpecPrepared /\ msg # NoneVal /\ SingleLine(argv.version)) =>
          StartsWith(spec,
              Substitute(TemplateText, argv.version, argv.release)
              \o <<"\n","%","c","h","a","n","g","e","l","o","g","\n","*"," ">>
              \o env.today \o <<" ">> \o _PACKAGER_NAME \o <<" ","-"," ">>
              \o argv.version \o <<"-">>)
    /\ \A k \in 1..Len(archives) :
          archives[k] = args.name \o <<"-">> \o argv.version \o <<"/">>
    /\ archives # <<>> =>
          \E f \in fs_files :
              f.path = BuildRoot \o <<"/","S","O","U","R","C","E","S","/">>
                  \o args.name \o <<"-">> \o argv.version
                  \o <<".","t","a","r",".","b","z","2">>

\* what C6 says besides when the tag is queried
VersionRules ==
    /\ Len(tag_queries) <= 1
    /\ argv.version \notin {NoneVal, <<>>} => SuppliedVersionUsed
    /\ (tag_queries # <<>> /\ ~TagQueryFailed) =>
          args.version = Strip(tag_queries[1])
    /\ (tag_queries # <<>> /\ (tag_queries[1] = NoneVal \/ ~IsAscii(tag_queries[1])))
          => TagQueryFailed
    /\ TagQueryFailed =>
          /\ pc = "failed" /\ Len(steps) = 1
          /\ fs_dirs = env.dirs /\ fs_files = env.files

\* C6 as stated: the tag is queried if and only if no --version value was
\* supplied.
C6_Original ==
    pc # "get_args" =>
        /\ tag_queries # <<>> <=> argv.version = NoneVal
        /\ VersionRules

\* C6, amended: the tag is queried if and only if no non-empty --version
\* value was supplied; a supplied non-empty value is the version of the
\* substitution, the stanza, the archive prefix and the tarball name; a
\* failing tag query ends the run before any directory or file is made.
C6_TagQuery ==
    pc # "get_args" =>
        /\ tag_queries # <<>> <=> argv.version \in {NoneVal, <<>>}
        /\ VersionRules

\* a run with --version that reached its end with its tarball
C6_Witness ==
    /\ pc = "done"
    /\ argv.version \notin {NoneVal, <<>>}
    /\ tag_queries = <<>>
    /\ Len(archives) = 1
    /\ msg # NoneVal

\* the fields of the configuration other than name and version
FixedFields ==
    {"spec", "patch", "docker_image", "native", "rpmbuild", "release",
     "message", "old_rpm"}

\* spec preparation has returned
SpecPrepReturned ==
    SpecPrepared /\ (raised = <<>> \/ raised[1].step # "prepare_spec_file")

\* every artifact written so far carries the name n
ArtifactsNamed(n) ==
    /\ \A f \in fs_files :
          /\ StartsWith(f.path, BuildRoot \o <<"/","S","P","E","C","S","/">>) =>
                f.path = BuildRoot \o <<"/","S","P","E","C","S","/">> \o n
                             \o <<".","s","p","e","c">>
          /\ StartsWith(f.content, <<"bz2 of tar with prefix">>) =>
                /\ f.path = BuildRoot \o <<"/","S","O","U","R","C","E","S","/">>
                       \o n \o <<"-">> \o args.version
                       \o <<".","t","a","r",".","b","z","2">>
                /\ f.content = <<"bz2 of tar with prefix">> \o n \o <<"-">>
                       \o args.version \o <<"/">>
    /\ \A k \in 1..Len(archives) :
          archives[k] = n \o <<"-">> \o args.version \o <<"/">>
    /\ \A k \in 1..Len(builds) :
          builds[k].script_spec =
              <<"r","p","m","b","u","i","l","d","/","S","P","E","C","S","/">> \o n
                  \o <<".","s","p","e","c">>
    /\ \A k \in 1..Len(natives) :
          natives[k].spec_path =
              BuildRoot \o <<"/","S","P","E","C","S","/">> \o n
                  \o <<".","s","p","e","c">>

\* C8: one name per run: the name is unset until spec preparation, is the
\* one parsed from the Name: lines once spec preparation has returned, and
\* the spec file, the archive prefix, the tarball and the spec paths of
\* every container script and of the native build carry it; no other field
\* of the configuration differs from what the arguments resolved to.
C8_SingleName ==
    /\ ~SpecPrepared => args.name = Unset
    /\ SpecPrepReturned =>
          /\ args.name # Unset
          /\ NameLines(Substituted) # <<>>
          /\ args.name =
                SplitWS(NameLines(Substituted)[Len(NameLines(Substituted))])[2]
    /\ args.name # Unset => ArtifactsNamed(args.name)
    /\ args.name = Unset =>
          /\ fs_files = env.files
          /\ archives = <<>> /\ builds = <<>> /\ natives = <<>>
    /\ \A f \in FixedFields : args[f] = argv[f]
    /\ (pc # "get_args" /\ tag_queries = <<>>) => args.version = argv.version

\* a complete run over a template with two Name: lines, with a container
\* build and a native build
C8_Witness ==
    /\ pc = "done"
    /\ Len(NameLines(Substituted)) = 2
    /\ Len(builds) >= 1
    /\ Len(natives) = 1
    /\ \E f \in fs_files : StartsWith(f.content, <<"bz2 of tar with prefix">>)

\* the run stopped in spec preparation for want of a name, with nothing
\* but the directories made
NoNameAbort(errors) ==
    /\ pc = "failed"
    /\ args.name = Unset
    /\ Len(raised) = 1
    /\ raised[1].step = "prepare_spec_file"
    /\ raised[1].error \in errors
    /\ raised[1].error = "rpm_query" <=> rpm_queries = <<NoneVal>>
    /\ raised[1].error = "rpm_decode" <=>
          (Len(rpm_queries) = 1 /\ rpm_queries[1] # NoneVal
              /\ ~IsUtf8(rpm_queries[1]))
    /\ fs_files = env.files
    /\ archives = <<>> /\ builds = <<>> /\ natives = <<>>
    /\ fs_dirs = env.dirs \cup
                     {Abspath(BuildRootDirs(args.rpmbuild)[k]) : k \in 1..3}

\* C9 as stated: a template without a Name: line makes the run abort at
\* the first path construction that needs the name.
C9_Original ==
    (SpecPrepared /\ env.template # NoneVal /\ NameLines(TemplateText) = <<>>)
    => NoNameAbort({"name_unset"})

\* C9, amended: when the text after the substitution has no Name: line, the
\* name stays unset and the run aborts inside spec preparation, at the
\* path of the spec file or before it at an rpm query that fails or prints
\* what cannot be decoded: nothing is written, copied, archived or built,
\* and the directories remain.
C9_NoNameAborts ==
    (SpecPrepared /\ env.template # NoneVal /\ NameLines(Substituted) = <<>>)
    => NoNameAbort({"name_unset", "rpm_query", "rpm_decode"})

\* no Name: line, the prior changelog read, the abort at the spec path
C9_Witness ==
    /\ SpecPrepared
    /\ env.template # NoneVal
    /\ NameLines(Substituted) = <<>>
    /\ Len(rpm_queries) = 1 /\ rpm_queries[1] # NoneVal
    /\ raised = <<Exc("prepare_spec_file", "name_unset")>>

\* the places in --patch of the paths that name no file
Missing ==
    {k \in 1..Len(args.patch) :
        Abspath(args.patch[k]) \notin FilePaths(env.files)}

\* the places in --patch of the files that are their own destination
OwnCopy ==
    {k \in 1..Len(args.patch) \ Missing :
        Abspath(args.patch[k]) = PatchCopy(k).path}

FirstOf(S) == CHOOSE k \in S : \A j \in S : k <= j

FirstMissing == FirstOf(Missing)

PatchLoopFailed == raised = <<Exc("prepare_spec_file", "patch")>>

\* the paths the run wrote before the patch at place k
WrittenBefore(k) ==
    {[path |-> Abspath(SpecPath(args.rpmbuild, args.name)), content |-> spec]}
    \cup {PatchCopy(j) : j \in 1..(k - 1)}

\* C10: a missing patch stops the run inside spec preparation; when the
\* spec file could be written, the patch loop is what raised, at the first
\* patch that is missing or is its own destination: the build root holds
\* the finished spec file, the copies of the patches listed before that one
\* and what was there before, and no archive or build was started.
C10_NoRollback ==
    /\ (SpecPrepared /\ Missing # {}) =>
          /\ pc = "failed"
          /\ Len(raised) = 1
          /\ raised[1].step = "prepare_spec_file"
          /\ (/\ env.template # NoneVal
              /\ rpm_queries # <<NoneVal>>
              /\ \A k \in 1..Len(rpm_queries) : IsUtf8(rpm_queries[k])
              /\ args.name # Unset
              /\ Abspath(SpecPath(args.rpmbuild, args.name)) \notin env.dirs
              /\ IsAscii(spec)
              /\ raised[1].error # "name_index") => PatchLoopFailed
    /\ PatchLoopFailed =>
          /\ Missing \cup OwnCopy # {}
          /\ spec # <<>>
          /\ LET new == WrittenBefore(FirstOf(Missing \cup OwnCopy))
             IN  fs_files =
                     {f \in env.files : f.path \notin FilePaths(new)} \cup new
          /\ archives = <<>> /\ builds = <<>> /\ natives = <<>>

\* the second listed patch is the first missing one: the first was copied
C10_Witness ==
    /\ PatchLoopFailed
    /\ FirstMissing = 2
    /\ PatchCopy(1) \in fs_files
====
